---- MODULE Spec2Model ----
(***************************************************************************)
(* Bid evaluation, ranking and award of the ATEMS tender system            *)
(* (backend/app/api/v1/endpoints/{tenders,bids,evaluation,contracts}.py).  *)
(*                                                                         *)
(* The database is the state: the tenders' status, the bids table, the     *)
(* evaluations table and the contracts table.  One action per request      *)
(* handler; a handler that raises HTTPException leaves the database as it  *)
(* was and only sets the response.  Optional (nullable) columns are sets   *)
(* with at most one element: {} is NULL / None, {v} is the value v.        *)
(* Decimal scores are integers counted in hundredths (Numeric(5, 2)).      *)
(***************************************************************************)
EXTENDS Integers, Sequences, FiniteSets, TLC

VARIABLES
    tenderStatus,    \* tender id -> Tender.status
    deadlinePassed,  \* tender id -> Tender.submission_deadline is in the past
    bids,            \* the bids table; a bid's id is its index
    evaluations,     \* the evaluations table; a row's id is its index
    contracts,       \* the contracts table (tender_id, bid_id of each contract)
    response,        \* outcome of the last request
    sessions,        \* request id -> the ORM session of the request, None before it is sent
    trail            \* tender id -> the statuses the tender has had, oldest first

vars == <<tenderStatus, deadlinePassed, bids, evaluations, contracts, response,
          sessions, trail>>

db == <<tenderStatus, bids, evaluations, contracts>>

-----------------------------------------------------------------------------
(* Bounds of the model *)

NumTenders == 2
NumBidders == 2
MaxBids == 2
MaxEvaluations == 2
MaxContracts == 1
NumRequests == 2
\* bids of tender 1 in the databases prepared for the ranking specifications
NumRankedBids == 3
\* the financial amounts offered by bidders: MaxAmount and the two below it
MaxAmount == 11
NumCriteria == 2
NumEvaluators == 2
\* scores sent by evaluators are multiples of ScoreUnit, up to MaxScoreUnits of them
ScoreUnit == 30
MaxScoreUnits == 4

-----------------------------------------------------------------------------
(* Program constants *)

\* EvaluationCriteria.max_score default
DefaultMaxScore == 100
\* EvaluationCriteria.weight default 1.0, in hundredths
DefaultWeight == 100
\* "Minimum qualifying score"
QualifyingScore == 60
\* Numeric(5, 2): two fractional digits
Scale == 100
\* Query defaults of technical_weight and financial_weight, in hundredths
DefaultTechnicalWeight == 70
DefaultFinancialWeight == 30

TenderIds == 1..NumTenders
\* ids a caller may send: the tenders that exist, and one that does not
TenderArgs == 1..(NumTenders + 1)
BidderIds == 1..NumBidders
\* bid ids a caller may send: a bid that exists, or one that does not (yet)
BidArgs == 1..MaxBids
RequestIds == 1..NumRequests

-----------------------------------------------------------------------------
(* Optional values *)

None == {}

Some(v) == {v}

Val(opt) == CHOOSE v \in opt : TRUE

\* Python's `x or 0`
OrZero(opt) == IF opt = None THEN 0 ELSE Val(opt)

\* Python truthiness of an Optional[Decimal]: neither None nor zero
TruthyNum(opt) == opt # None /\ Val(opt) # 0

\* Python truthiness of an Optional[bool]: neither None nor False
TruthyBool(opt) == opt = Some(TRUE)

-----------------------------------------------------------------------------
(* Enumerations *)

TenderStatus == {"Draft", "Published", "Under Evaluation", "Evaluated",
                 "Awarded", "Cancelled", "Closed"}

BidStatus == {"Draft", "Submitted", "Under Review", "Qualified", "Disqualified",
              "Shortlisted", "Awarded", "Rejected", "Withdrawn"}

EvaluationType == {"L1", "L2", "T1", "QCBS"}

\* HTTP outcome of a handler: 2xx, or the HTTPException it raised (the two
\* 404s are told apart by their detail, "Tender not found" / "Bid not found")
ResponseCodes == {"NONE", "OK", "BAD_REQUEST", "FORBIDDEN", "TENDER_NOT_FOUND",
                  "BID_NOT_FOUND", "UNPROCESSABLE", "SERVER_ERROR"}

-----------------------------------------------------------------------------
(* Tables *)

BidIds == 1..Len(bids)

BidExists(bid_id) == bid_id \in BidIds

TenderExists(tender_id) == tender_id \in TenderIds

BidsOfTender(tender_id) == {b \in BidIds : bids[b].tender_id = tender_id}

NewBid(tender_id, bidder_id, amount) ==
    [tender_id |-> tender_id, bidder_id |-> bidder_id, status |-> "Draft",
     financial_amount |-> amount, technical_score |-> None,
     financial_score |-> None, combined_score |-> None,
     rank |-> None, is_qualified |-> None]

\* What a handler returns: the handler, the HTTP outcome, for a ranking run the
\* bid ids of EvaluationResultResponse.rankings in rank order and the rest of
\* the EvaluationResultResponse, and for evaluate_bid the id of the
\* EvaluationResponse row.
RespondFull(op, code, rankings, id, result) ==
    [op |-> op, code |-> code, rankings |-> rankings, id |-> id, result |-> result]

RespondRow(op, code, rankings, id) == RespondFull(op, code, rankings, id, None)

Respond(op, code, rankings) == RespondRow(op, code, rankings, None)

Reject(op, code) ==
    /\ response' = Respond(op, code, <<>>)
    /\ UNCHANGED <<tenderStatus, deadlinePassed, bids, evaluations, contracts, sessions,
                   trail>>

\* tender.status = status, and the record of it in the tender's trail
SetTenderStatus(tender_id, status) ==
    /\ tenderStatus' = [tenderStatus EXCEPT ![tender_id] = status]
    /\ trail' = [trail EXCEPT ![tender_id] =
                    IF tenderStatus[tender_id] # status THEN Append(@, status) ELSE @]

-----------------------------------------------------------------------------
(* Tender life cycle: tenders.py *)

PublishTender(tender_id) ==
    IF ~TenderExists(tender_id) THEN Reject("publish_tender", "TENDER_NOT_FOUND")
    ELSE IF tenderStatus[tender_id] # "Draft" THEN Reject("publish_tender", "BAD_REQUEST")
    ELSE /\ SetTenderStatus(tender_id, "Published")
         /\ response' = Respond("publish_tender", "OK", <<>>)
         /\ UNCHANGED <<deadlinePassed, bids, evaluations, contracts, sessions>>

CancelTender(tender_id) ==
    IF ~TenderExists(tender_id) THEN Reject("cancel_tender", "TENDER_NOT_FOUND")
    ELSE IF tenderStatus[tender_id] \in {"Awarded", "Closed"}
         THEN Reject("cancel_tender", "BAD_REQUEST")
    ELSE /\ SetTenderStatus(tender_id, "Cancelled")
         /\ response' = Respond("cancel_tender", "OK", <<>>)
         /\ UNCHANGED <<deadlinePassed, bids, evaluations, contracts, sessions>>

\* Time passes.  The tenders of the model have the same submission_deadline,
\* which is now in the past.
DeadlinePasses ==
    /\ \E t \in TenderIds : ~deadlinePassed[t]
    /\ deadlinePassed' = [t \in TenderIds |-> TRUE]
    /\ UNCHANGED <<tenderStatus, bids, evaluations, contracts, response, sessions, trail>>

StartEvaluation(tender_id) ==
    IF ~TenderExists(tender_id) THEN Reject("start_evaluation", "TENDER_NOT_FOUND")
    ELSE IF tenderStatus[tender_id] # "Published" THEN Reject("start_evaluation", "BAD_REQUEST")
    ELSE IF ~deadlinePassed[tender_id] THEN Reject("start_evaluation", "BAD_REQUEST")
    ELSE /\ SetTenderStatus(tender_id, "Under Evaluation")
         /\ response' = Respond("start_evaluation", "OK", <<>>)
         /\ UNCHANGED <<deadlinePassed, bids, evaluations, contracts, sessions>>


-----------------------------------------------------------------------------
(* Bids: bids.py.  `caller` is the bidder profile of the current user. *)

\* BidCreate.financial_amount: Optional[Decimal], not validated (zero and
\* negative amounts are accepted)
AmountChoices ==
    {None, Some(0)} \cup {Some(a) : a \in (MaxAmount - 2)..MaxAmount}
                    \cup {Some(0 - a) : a \in (MaxAmount - 2)..MaxAmount}

CreateBid(tender_id, caller, amount) ==
    IF ~TenderExists(tender_id) THEN Reject("create_bid", "TENDER_NOT_FOUND")
    ELSE IF tenderStatus[tender_id] # "Published" THEN Reject("create_bid", "BAD_REQUEST")
    ELSE IF deadlinePassed[tender_id] THEN Reject("create_bid", "BAD_REQUEST")
    \* uq_bid_tender_bidder: IntegrityError -> rollback -> 400
    ELSE IF \E b \in BidIds : bids[b].tender_id = tender_id /\ bids[b].bidder_id = caller
         THEN Reject("create_bid", "BAD_REQUEST")
    ELSE /\ Len(bids) < MaxBids
         /\ bids' = Append(bids, NewBid(tender_id, caller, amount))
         /\ response' = Respond("create_bid", "OK", <<>>)
         /\ UNCHANGED <<tenderStatus, deadlinePassed, evaluations, contracts, sessions, trail>>

\* The bid_documents table is not part of the state: whether the bid has its
\* technical and its financial proposal document is an input of the request.
SubmitBid(bid_id, caller, technical_docs, financial_docs) ==
    IF ~BidExists(bid_id) THEN Reject("submit_bid", "BID_NOT_FOUND")
    ELSE IF bids[bid_id].bidder_id # caller THEN Reject("submit_bid", "FORBIDDEN")
    ELSE IF bids[bid_id].status # "Draft" THEN Reject("submit_bid", "BAD_REQUEST")
    ELSE IF deadlinePassed[bids[bid_id].tender_id] THEN Reject("submit_bid", "BAD_REQUEST")
    ELSE IF ~technical_docs THEN Reject("submit_bid", "BAD_REQUEST")
    ELSE IF ~financial_docs THEN Reject("submit_bid", "BAD_REQUEST")
    ELSE /\ bids' = [bids EXCEPT ![bid_id].status = "Submitted"]
         /\ response' = Respond("submit_bid", "OK", <<>>)
         /\ UNCHANGED <<tenderStatus, deadlinePassed, evaluations, contracts, sessions, trail>>

\* No check of the bid's current status: only ownership and the deadline.
WithdrawBid(bid_id, caller) ==
    IF ~BidExists(bid_id) THEN Reject("withdraw_bid", "BID_NOT_FOUND")
    ELSE IF bids[bid_id].bidder_id # caller THEN Reject("withdraw_bid", "FORBIDDEN")
    ELSE IF deadlinePassed[bids[bid_id].tender_id] THEN Reject("withdraw_bid", "BAD_REQUEST")
    ELSE /\ bids' = [bids EXCEPT ![bid_id].status = "Withdrawn"]
         /\ response' = Respond("withdraw_bid", "OK", <<>>)
         /\ UNCHANGED <<tenderStatus, deadlinePassed, evaluations, contracts, sessions, trail>>

-----------------------------------------------------------------------------
(* Score entries: evaluation.py evaluate_bid *)

\* The evaluation criteria of the tenders (EvaluationCriteria rows): criterion c
\* belongs to tender 1, with the column default max_score = 100; criterion 1
\* has the default weight 1.0, criterion c the weight 1.0 / c to two digits.
\* Weights are counted in hundredths.
CriteriaIds == 1..NumCriteria

Criteria == [c \in CriteriaIds |-> [tender_id |-> 1, max_score |-> DefaultMaxScore,
                                    weight |-> DefaultWeight \div c]]

\* ids a caller may send: the criteria that exist, and one that does not
CriteriaArgs == 1..(NumCriteria + 1)

\* EvaluationCommittee rows with is_active: users 1..NumEvaluators sit on the
\* committee of every tender; user NumEvaluators + 1 is an evaluator who does not.
EvaluatorIds == 1..NumEvaluators

UserArgs == 1..(NumEvaluators + 1)

InCommittee(tender_id, user_id) == user_id \in EvaluatorIds

\* EvaluationBase.score: Decimal, ge=0
ScoreChoices == {k * ScoreUnit : k \in (0 - 1)..MaxScoreUnits}

EvaluationIds == 1..Len(evaluations)

\* db.query(Evaluation).filter(bid_id ==, evaluator_id ==, criteria_id ==)
Matching(rows, bid_id, user_id, criteria_id) ==
    {e \in DOMAIN rows : /\ rows[e].bid_id = bid_id
                         /\ rows[e].evaluator_id = user_id
                         /\ rows[e].criteria_id = criteria_id}

NewEvaluation(bid_id, user_id, criteria_id, score) ==
    [tender_id |-> bids[bid_id].tender_id, bid_id |-> bid_id, evaluator_id |-> user_id,
     criteria_id |-> criteria_id, score |-> score]

\* Mutant: the checks of evaluate_bid without the comparison with max_score
EvaluateBidCheckNoMax(bid_id, user_id, criteria_id, score) ==
    IF score < 0 THEN "UNPROCESSABLE"
    ELSE IF ~BidExists(bid_id) THEN "BID_NOT_FOUND"
    ELSE IF tenderStatus[bids[bid_id].tender_id] # "Under Evaluation" THEN "BAD_REQUEST"
    ELSE IF ~InCommittee(bids[bid_id].tender_id, user_id) THEN "FORBIDDEN"
    ELSE IF ~(criteria_id \in CriteriaIds
              /\ Criteria[criteria_id].tender_id = bids[bid_id].tender_id) THEN "BAD_REQUEST"
    ELSE "OK"

\* The checks of evaluate_bid up to the score validation: the HTTPException
\* raised, or "OK" when the request goes on to the upsert.
EvaluateBidCheck(bid_id, user_id, criteria_id, score) ==
    IF score < 0 THEN "UNPROCESSABLE"
    ELSE IF ~BidExists(bid_id) THEN "BID_NOT_FOUND"
    ELSE IF tenderStatus[bids[bid_id].tender_id] # "Under Evaluation" THEN "BAD_REQUEST"
    ELSE IF ~InCommittee(bids[bid_id].tender_id, user_id) THEN "FORBIDDEN"
    ELSE IF ~(criteria_id \in CriteriaIds
              /\ Criteria[criteria_id].tender_id = bids[bid_id].tender_id) THEN "BAD_REQUEST"
    ELSE IF score > Criteria[criteria_id].max_score THEN "BAD_REQUEST"
    ELSE "OK"

\* Mutant: a row is added whether or not one was found
AppendEvaluation(rows, existing, bid_id, user_id, criteria_id, score) ==
    Append(rows, NewEvaluation(bid_id, user_id, criteria_id, score))

\* The write of evaluate_bid: `existing` is what .first() returned, None or a row.
UpsertEvaluation(rows, existing, bid_id, user_id, criteria_id, score) ==
    IF existing # None
    THEN [rows EXCEPT ![Val(existing)].score = score]
    ELSE Append(rows, NewEvaluation(bid_id, user_id, criteria_id, score))

\* The id of the row evaluate_bid returns: the row found, or the one added
ReturnedId(rows, existing) == IF existing # None THEN existing ELSE Some(Len(rows) + 1)

\* .first() without ORDER BY: any matching row, None when there is none
FirstMatching(rows, bid_id, user_id, criteria_id) ==
    IF Matching(rows, bid_id, user_id, criteria_id) = {} THEN {None}
    ELSE {Some(e) : e \in Matching(rows, bid_id, user_id, criteria_id)}

\* One evaluate_bid request run from start to end with no other request between.
EvaluateBid(bid_id, user_id, criteria_id, score) ==
    IF EvaluateBidCheck(bid_id, user_id, criteria_id, score) # "OK"
    THEN Reject("evaluate_bid", EvaluateBidCheck(bid_id, user_id, criteria_id, score))
    ELSE \E existing \in FirstMatching(evaluations, bid_id, user_id, criteria_id) :
         /\ existing = None => Len(evaluations) < MaxEvaluations
         /\ evaluations' = UpsertEvaluation(evaluations, existing, bid_id, user_id,
                                            criteria_id, score)
         /\ response' = RespondRow("evaluate_bid", "OK", <<>>,
                                   ReturnedId(evaluations, existing))
         /\ UNCHANGED <<tenderStatus, deadlinePassed, bids, contracts, sessions, trail>>

-----------------------------------------------------------------------------
(* Ranking run: evaluation.py calculate_evaluation *)

\* technical_weight / financial_weight: Query(0.7 / 0.3, ge=0, le=1), in hundredths
WeightChoices == {DefaultFinancialWeight, DefaultTechnicalWeight}

\* The orders in which a query without ORDER BY may return the rows `ids`
Orderings(ids) ==
    {o \in [1..Cardinality(ids) -> ids] : \A b \in ids : \E i \in DOMAIN o : o[i] = b}

\* Bid.tender_id == tender_id, Bid.status == SUBMITTED
SubmittedBids(table, tender_id) ==
    {b \in DOMAIN table : table[b].tender_id = tender_id /\ table[b].status = "Submitted"}

RECURSIVE SumScoresUnweighted(_, _)
\* Mutant: the scores added up without the weights of their criteria
SumScoresUnweighted(rows, ids) ==
    IF ids = {} THEN 0
    ELSE LET e == CHOOSE x \in ids : TRUE
         IN  rows[e].score * DefaultWeight + SumScoresUnweighted(rows, ids \ {e})

RECURSIVE SumScores(_, _)
\* sum(float(e.score) * float(e.criteria.weight) for e in evaluations), in hundredths
SumScores(rows, ids) ==
    IF ids = {} THEN 0
    ELSE LET e == CHOOSE x \in ids : TRUE
         IN  rows[e].score * Criteria[rows[e].criteria_id].weight
             + SumScores(rows, ids \ {e})

EvaluationsOfBid(rows, bid_id) == {e \in DOMAIN rows : rows[e].bid_id = bid_id}

\* Mutant: a bid qualifies only above the qualifying score
ScoreBidsAbove(table, rows, loaded) ==
    [b \in DOMAIN table |->
        IF b \in loaded /\ EvaluationsOfBid(rows, b) # {}
        THEN LET total_score == SumScores(rows, EvaluationsOfBid(rows, b))
             IN  [table[b] EXCEPT !.technical_score = Some(total_score),
                                  !.is_qualified = Some(total_score > QualifyingScore * Scale)]
        ELSE table[b]]

\* Mutant: a bid without evaluations is scored 0
ScoreBidsZero(table, rows, loaded) ==
    [b \in DOMAIN table |->
        IF b \in loaded
        THEN LET total_score == SumScores(rows, EvaluationsOfBid(rows, b))
             IN  [table[b] EXCEPT !.technical_score = Some(total_score),
                                  !.is_qualified = Some(total_score >= QualifyingScore * Scale)]
        ELSE table[b]]

\* Lines 249-257: technical_score and is_qualified of every loaded bid that has
\* evaluations; a bid without evaluations keeps what was loaded.
ScoreBids(table, rows, loaded) ==
    [b \in DOMAIN table |->
        IF b \in loaded /\ EvaluationsOfBid(rows, b) # {}
        THEN LET total_score == SumScores(rows, EvaluationsOfBid(rows, b))
             IN  [table[b] EXCEPT !.technical_score = Some(total_score),
                                  !.is_qualified = Some(total_score >= QualifyingScore * Scale)]
        ELSE table[b]]

\* Python's sorted(): stable, so an element comes after those that sort before
\* it and those of equal key that precede it in the input.  `before` is the
\* set of the pairs <<a, b>> of which a sorts strictly before b.
SortedPosition(order, i, before) ==
    1 + Cardinality({j \in DOMAIN order :
                        \/ <<order[j], order[i]>> \in before
                        \/ (<<order[i], order[j]>> \notin before /\ j < i)})

\* (The positions are bound as the element of a singleton so that they are
\* computed once; so are the sorted bids in the ranking operators below.)
StableSort(order, before) ==
    CHOOSE sorted \in
        {[k \in DOMAIN order |-> order[CHOOSE i \in DOMAIN order : position[i] = k]] :
            position \in {[i \in DOMAIN order |-> SortedPosition(order, i, before)]}} : TRUE

\* Mutant: ranks counted from 0, as enumerate(sorted_bids) would
AssignRanksFromZero(table, sorted_bids) ==
    [b \in DOMAIN table |->
        IF \E k \in DOMAIN sorted_bids : sorted_bids[k] = b
        THEN [table[b] EXCEPT !.rank =
                 Some((CHOOSE k \in DOMAIN sorted_bids : sorted_bids[k] = b) - 1)]
        ELSE table[b]]

\* for rank, bid in enumerate(sorted_bids, 1): bid.rank = rank
AssignRanks(table, sorted_bids) ==
    [b \in DOMAIN table |->
        IF \E k \in DOMAIN sorted_bids : sorted_bids[k] = b
        THEN [table[b] EXCEPT !.rank = Some(CHOOSE k \in DOMAIN sorted_bids : sorted_bids[k] = b)]
        ELSE table[b]]

\* The outcome of a ranking: the bids with their ranks, and the rankings list
Ranked(table, sorted_bids) ==
    CHOOSE r \in {[table |-> AssignRanks(t, sb), rankings |-> sb] :
                     t \in {table}, sb \in {sorted_bids}} : TRUE

\* [b for b in bids if b.is_qualified and b.financial_amount]
QualifiedBids(table, order) ==
    SelectSeq(order, LAMBDA b : TruthyBool(table[b].is_qualified)
                                /\ TruthyNum(table[b].financial_amount))

SeqRange(seq) == {seq[i] : i \in DOMAIN seq}

Sign(n) == IF n < 0 THEN 0 - 1 ELSE 1

\* n / d rounded to the nearest integer, halves away from zero (d # 0)
RoundDiv(n, d) ==
    LET num == n * Sign(d)
        den == d * Sign(d)
    IN  IF num >= 0 THEN (2 * num + den) \div (2 * den)
        ELSE 0 - ((2 * (0 - num) + den) \div (2 * den))

MinAmount(table, ids) ==
    CHOOSE m \in {Val(table[b].financial_amount) : b \in ids} :
        \A b \in ids : m <= Val(table[b].financial_amount)

\* (min_amount / amount) * 100 as the fraction numerator / amount
FinancialScoreNum(min_amount) == min_amount * Scale

\* Mutant: the two weights exchanged
CombinedNumSwapped(technical_score, amount, min_amount, technical_weight, financial_weight) ==
    OrZero(technical_score) * financial_weight * amount
    + min_amount * Scale * technical_weight * Scale

\* tech * technical_weight + fin * financial_weight as a fraction over
\* Scale * Scale * amount: the technical score is in hundredths, the weights are
\* in hundredths, the financial score is FinancialScoreNum / amount.
CombinedNum(technical_score, amount, min_amount, technical_weight, financial_weight) ==
    OrZero(technical_score) * technical_weight * amount
    + FinancialScoreNum(min_amount) * financial_weight * Scale

RankL1(table, order) ==
    LET qualified_bids == QualifiedBids(table, order)
        ids == SeqRange(qualified_bids)
        sorted_bids == StableSort(qualified_bids,
                          {p \in ids \X ids : OrZero(table[p[1]].financial_amount)
                                               < OrZero(table[p[2]].financial_amount)})
    IN  Ranked(table, sorted_bids)

\* Mutant: sorted from the lowest score up, as without reverse=True
RankT1Ascending(table, order) ==
    LET ids == SeqRange(order)
        sorted_bids == StableSort(order,
                          {p \in ids \X ids : OrZero(table[p[1]].technical_score)
                                               < OrZero(table[p[2]].technical_score)})
    IN  Ranked(table, sorted_bids)

RankT1(table, order) ==
    LET ids == SeqRange(order)
        sorted_bids == StableSort(order,
                          {p \in ids \X ids : OrZero(table[p[1]].technical_score)
                                               > OrZero(table[p[2]].technical_score)})
    IN  Ranked(table, sorted_bids)

RankQCBS(table, order, technical_weight, financial_weight) ==
    LET qualified_bids == QualifiedBids(table, order)
        ids == SeqRange(qualified_bids)
        min_amount == MinAmount(table, ids)
        amount == [b \in ids |-> Val(table[b].financial_amount)]
        num == [b \in ids |-> CombinedNum(table[b].technical_score, amount[b], min_amount,
                                          technical_weight, financial_weight)]
        \* the scores as persisted (two fractional digits)
        scored == [b \in DOMAIN table |->
                     IF b \in ids
                     THEN [table[b] EXCEPT
                             !.financial_score =
                                 Some(RoundDiv(FinancialScoreNum(min_amount) * Scale, amount[b])),
                             !.combined_score = Some(RoundDiv(num[b], Scale * amount[b]))]
                     ELSE table[b]]
        \* the sort compares the scores as computed: num[a]/amount[a] > num[b]/amount[b]
        sorted_bids == StableSort(qualified_bids,
                          {p \in ids \X ids :
                              num[p[1]] * amount[p[2]] * Sign(amount[p[1]] * amount[p[2]])
                                 > num[p[2]] * amount[p[1]] * Sign(amount[p[1]] * amount[p[2]])})
    IN  IF ids = {} THEN [table |-> table, rankings |-> <<>>]
        ELSE Ranked(scored, sorted_bids)

\* Lines 259-325: the ranking of the scored bids by the evaluation type
RankScored(scored, order, evaluation_type, technical_weight, financial_weight) ==
    CASE evaluation_type = "L1" -> RankL1(scored, order)
      [] evaluation_type = "T1" -> RankT1(scored, order)
      [] evaluation_type = "QCBS" -> RankQCBS(scored, order, technical_weight,
                                              financial_weight)
      [] OTHER -> [table |-> scored, rankings |-> <<>>]

\* Lines 249-325 on the bids as loaded: the session's bids after the run, and
\* the bid ids of the rankings list.  (The scored table is bound as the element
\* of a singleton so that it is computed once.)
RankingRun(table, rows, order, evaluation_type, technical_weight, financial_weight) ==
    CHOOSE run \in {RankScored(scored, order, evaluation_type, technical_weight,
                               financial_weight) :
                       scored \in {ScoreBids(table, rows, SeqRange(order))}} : TRUE

DerivedFields == {"technical_score", "is_qualified", "financial_score",
                  "combined_score", "rank"}

\* db.commit() at line 327: the session flushes, for each bid it loaded, an
\* UPDATE of the columns whose value differs from the loaded one, onto the
\* rows as they now are in the database.
Flush(current, loaded, computed) ==
    [b \in DOMAIN current |->
        IF b \in DOMAIN loaded
        THEN [f \in DOMAIN current[b] |->
                IF f \in DerivedFields /\ computed[b][f] # loaded[b][f]
                THEN computed[b][f] ELSE current[b][f]]
        ELSE current[b]]

\* BidRanking.label: f"L{rank}", f"T{rank}", f"QCBS-{rank}"
RankingLabel(evaluation_type, rank) ==
    <<IF evaluation_type = "QCBS" THEN "QCBS-" ELSE evaluation_type, rank>>

\* BidRanking.status
RankingStatus(evaluation_type, rank) ==
    CASE evaluation_type = "L1" -> IF rank = 1 THEN "Winner" ELSE "Runner Up"
      [] evaluation_type = "T1" -> IF rank = 1 THEN "Highest Technical" ELSE ""
      [] evaluation_type = "QCBS" -> IF rank = 1 THEN "Recommended" ELSE ""
      [] OTHER -> ""

\* Lines 329-337: the EvaluationResultResponse.  `table` is the bids as the
\* session reads them after the commit, `loaded` the ids of the loaded bids.
EvaluationResult(tender_id, evaluation_type, technical_weight, financial_weight, table, loaded, rankings) ==
    [evaluation_type |-> evaluation_type,
     tender_id |-> tender_id,
     weights |-> IF evaluation_type = "QCBS"
                 THEN Some([technical |-> technical_weight, financial |-> financial_weight])
                 ELSE None,
     total_bids |-> Cardinality(loaded),
     qualified_bids |-> Cardinality({b \in loaded : TruthyBool(table[b].is_qualified)}),
     disqualified_bids |-> Cardinality({b \in loaded : ~TruthyBool(table[b].is_qualified)}),
     rankings |-> [k \in DOMAIN rankings |->
                     [rank |-> k, label |-> RankingLabel(evaluation_type, k),
                      bid_id |-> rankings[k],
                      status |-> RankingStatus(evaluation_type, k)]]]

\* Mutant: a run with an empty rankings list is answered as one with no bids
CalculateEvaluationNoCandidates(tender_id, evaluation_type, technical_weight, financial_weight, order) ==
    IF ~TenderExists(tender_id) THEN Reject("calculate_evaluation", "TENDER_NOT_FOUND")
    ELSE IF SubmittedBids(bids, tender_id) = {}
         THEN Reject("calculate_evaluation", "BAD_REQUEST")
    ELSE \E run \in {RankingRun(bids, evaluations, order, evaluation_type,
                                 technical_weight, financial_weight)} :
         /\ order \in Orderings(SubmittedBids(bids, tender_id))
         /\ IF run.rankings = <<>> THEN Reject("calculate_evaluation", "BAD_REQUEST")
            ELSE \E flushed \in {Flush(bids, bids, run.table)} :
               /\ bids' = flushed
               /\ response' = RespondFull("calculate_evaluation", "OK", run.rankings, None,
                      Some(EvaluationResult(tender_id, evaluation_type, technical_weight,
                                            financial_weight, flushed, SeqRange(order),
                                            run.rankings)))
               /\ UNCHANGED <<tenderStatus, deadlinePassed, evaluations, contracts,
                              sessions, trail>>

\* One calculate_evaluation request run from start to end with no other request
\* between.  `order` is the order in which the bids query returned the rows.
CalculateEvaluation(tender_id, evaluation_type, technical_weight, financial_weight, order) ==
    IF ~TenderExists(tender_id) THEN Reject("calculate_evaluation", "TENDER_NOT_FOUND")
    ELSE IF SubmittedBids(bids, tender_id) = {}
         THEN Reject("calculate_evaluation", "BAD_REQUEST")
    ELSE \E run \in {RankingRun(bids, evaluations, order, evaluation_type,
                                 technical_weight, financial_weight)} :
         /\ order \in Orderings(SubmittedBids(bids, tender_id))
         /\ \E flushed \in {Flush(bids, bids, run.table)} :
               /\ bids' = flushed
               /\ response' = RespondFull("calculate_evaluation", "OK", run.rankings, None,
                      Some(EvaluationResult(tender_id, evaluation_type, technical_weight,
                                            financial_weight, flushed, SeqRange(order),
                                            run.rankings)))
         /\ UNCHANGED <<tenderStatus, deadlinePassed, evaluations, contracts, sessions,
                        trail>>

-----------------------------------------------------------------------------
(* Award transition: evaluation.py declare_winner, contracts.py issue_loi *)

\* Mutant: the bulk UPDATE filtered on Bid.status == SUBMITTED as well
RejectOthersSubmittedOnly(table, tender_id, bid_id) ==
    [b \in DOMAIN table |->
        IF table[b].tender_id = tender_id /\ b # bid_id /\ table[b].status = "Submitted"
        THEN [table[b] EXCEPT !.status = "Rejected"]
        ELSE table[b]]

\* Mutant: the bulk UPDATE spares a bid that is AWARDED already
RejectOthersExceptAwarded(table, tender_id, bid_id) ==
    [b \in DOMAIN table |->
        IF table[b].tender_id = tender_id /\ b # bid_id /\ table[b].status # "Awarded"
        THEN [table[b] EXCEPT !.status = "Rejected"]
        ELSE table[b]]

\* Mutant: the bid looked up by its id alone
FindBidById(table, bid_id, tender_id) == bid_id \in DOMAIN table

\* db.query(Bid).filter(Bid.id == bid_id, Bid.tender_id == tender_id).first()
\* finds a row
FindBid(table, bid_id, tender_id) ==
    bid_id \in DOMAIN table /\ table[bid_id].tender_id = tender_id

\* The bulk UPDATE bids SET status = 'Rejected' WHERE tender_id = ? AND id != ?
RejectOthers(table, tender_id, bid_id) ==
    [b \in DOMAIN table |->
        IF table[b].tender_id = tender_id /\ b # bid_id
        THEN [table[b] EXCEPT !.status = "Rejected"]
        ELSE table[b]]

DeclareWinner(tender_id, bid_id) ==
    IF ~TenderExists(tender_id) THEN Reject("declare_winner", "TENDER_NOT_FOUND")
    ELSE IF ~FindBid(bids, bid_id, tender_id)
         THEN Reject("declare_winner", "BID_NOT_FOUND")
    ELSE /\ SetTenderStatus(tender_id, "Awarded")
         /\ bids' = RejectOthers([bids EXCEPT ![bid_id].status = "Awarded"], tender_id, bid_id)
         /\ response' = Respond("declare_winner", "OK", <<>>)
         /\ UNCHANGED <<deadlinePassed, evaluations, contracts, sessions>>

\* The bid is looked up by id alone; the tender by data.tender_id.  A tender
\* that does not exist makes tender.status raise AttributeError (500).
IssueLoi(tender_id, bid_id) ==
    IF ~BidExists(bid_id) THEN Reject("issue_loi", "BID_NOT_FOUND")
    ELSE IF ~TenderExists(tender_id) THEN Reject("issue_loi", "SERVER_ERROR")
    ELSE IF tenderStatus[tender_id] \notin {"Evaluated", "Awarded"}
         THEN Reject("issue_loi", "BAD_REQUEST")
    ELSE /\ Len(contracts) < MaxContracts
         /\ contracts' = Append(contracts, [tender_id |-> tender_id, bid_id |-> bid_id,
                                            bidder_id |-> bids[bid_id].bidder_id])
         /\ bids' = [bids EXCEPT ![bid_id].status = "Awarded"]
         /\ SetTenderStatus(tender_id, "Awarded")
         /\ response' = Respond("issue_loi", "OK", <<>>)
         /\ UNCHANGED <<deadlinePassed, evaluations, sessions>>

-----------------------------------------------------------------------------
(* Comparative statement: evaluation.py get_comparative_statement *)

\* Bid.tender_id == tender_id, Bid.status.in_([SUBMITTED, QUALIFIED, SHORTLISTED])
StatementBids(table, tender_id) ==
    {b \in DOMAIN table : /\ table[b].tender_id = tender_id
                          /\ table[b].status \in {"Submitted", "Qualified", "Shortlisted"}}

\* .order_by(Bid.rank): the rows by ascending rank; rows of equal rank in any
\* order; the rows of NULL rank together, after the others (PostgreSQL) or
\* before them (SQLite)
RankOrderings(table, ids) ==
    {o \in Orderings(ids) :
        /\ \A i, j \in DOMAIN o :
              (i < j /\ table[o[i]].rank # None /\ table[o[j]].rank # None)
                 => Val(table[o[i]].rank) <= Val(table[o[j]].rank)
        /\ \/ \A i, j \in DOMAIN o :
                 (i < j /\ table[o[i]].rank = None) => table[o[j]].rank = None
           \/ \A i, j \in DOMAIN o :
                 (i < j /\ table[o[j]].rank = None) => table[o[i]].rank = None}

\* BidComparison: the row of one bid (its names and criteria scores left out)
BidComparison(table, b) ==
    [bid_id |-> b,
     technical_score |-> table[b].technical_score,
     financial_amount |-> table[b].financial_amount,
     financial_score |-> table[b].financial_score,
     combined_score |-> table[b].combined_score,
     rank |-> table[b].rank,
     is_qualified |-> TruthyBool(table[b].is_qualified)]

\* next((b for b in bids if b.rank == 1), None): the first row of rank 1
Recommendation(table, order) ==
    IF \E i \in DOMAIN order : table[order[i]].rank = Some(1)
    THEN Some(order[CHOOSE i \in DOMAIN order :
                     /\ table[order[i]].rank = Some(1)
                     /\ \A j \in 1..(i - 1) : table[order[j]].rank # Some(1)])
    ELSE None

\* ComparativeStatementResponse for the rows in the order the query returned
ComparativeStatement(table, tender_id, order) ==
    [tender_id |-> tender_id,
     evaluation_type |-> "QCBS",
     total_bids |-> Len(order),
     qualified_bids |-> Cardinality({b \in SeqRange(order) : TruthyBool(table[b].is_qualified)}),
     bids |-> [k \in DOMAIN order |-> BidComparison(table, order[k])],
     recommendation |-> Recommendation(table, order)]

\* One get_comparative_statement request: nothing is written
GetComparativeStatement(tender_id, order) ==
    IF ~TenderExists(tender_id) THEN Reject("get_comparative_statement", "TENDER_NOT_FOUND")
    ELSE /\ order \in RankOrderings(bids, StatementBids(bids, tender_id))
         /\ response' = RespondFull("get_comparative_statement", "OK", <<>>, None,
                                    Some(ComparativeStatement(bids, tender_id, order)))
         /\ UNCHANGED <<tenderStatus, deadlinePassed, bids, evaluations, contracts,
                        sessions, trail>>

-----------------------------------------------------------------------------
(* Requests in flight.  get_db gives every request its own Session        *)
(* (autoflush off, no lock taken, no SELECT ... FOR UPDATE): a request     *)
(* reads, other requests may commit, then it writes and commits, and the   *)
(* session is closed when the request ends.                                *)

Session(r) == Val(sessions[r])

InFlight(r, op, phase) ==
    sessions[r] # None /\ Session(r).op = op /\ Session(r).phase = phase

\* evaluate_bid, lines 129-178: the checks and the query for an existing row
EvaluateBidBegin(r, bid_id, user_id, criteria_id, score) ==
    /\ sessions[r] = None
    /\ IF EvaluateBidCheck(bid_id, user_id, criteria_id, score) # "OK"
       THEN Reject("evaluate_bid", EvaluateBidCheck(bid_id, user_id, criteria_id, score))
       ELSE \E existing \in FirstMatching(evaluations, bid_id, user_id, criteria_id) :
            /\ sessions' = [sessions EXCEPT ![r] =
                   Some([op |-> "evaluate_bid", phase |-> "loaded", bid_id |-> bid_id,
                         user_id |-> user_id, criteria_id |-> criteria_id,
                         score |-> score, existing |-> existing])]
            /\ UNCHANGED <<tenderStatus, deadlinePassed, bids, evaluations, contracts,
                           response, trail>>

\* evaluate_bid, lines 179-200: update the row found, or add a new one; commit
EvaluateBidCommit(r) ==
    /\ InFlight(r, "evaluate_bid", "loaded")
    /\ Session(r).existing = None => Len(evaluations) < MaxEvaluations
    /\ evaluations' = UpsertEvaluation(evaluations, Session(r).existing, Session(r).bid_id,
                                       Session(r).user_id, Session(r).criteria_id,
                                       Session(r).score)
    /\ sessions' = [sessions EXCEPT ![r] = Some([Session(r) EXCEPT !.phase = "committed"])]
    /\ response' = RespondRow("evaluate_bid", "OK", <<>>,
                              ReturnedId(evaluations, Session(r).existing))
    /\ UNCHANGED <<tenderStatus, deadlinePassed, bids, contracts, trail>>

\* calculate_evaluation, lines 230-251: the tender, its submitted bids and
\* their evaluations are read
CalculateBegin(r, tender_id, evaluation_type, technical_weight, financial_weight, order) ==
    /\ sessions[r] = None
    /\ IF ~TenderExists(tender_id) THEN Reject("calculate_evaluation", "TENDER_NOT_FOUND")
       ELSE IF SubmittedBids(bids, tender_id) = {}
            THEN Reject("calculate_evaluation", "BAD_REQUEST")
       ELSE /\ order \in Orderings(SubmittedBids(bids, tender_id))
            /\ sessions' = [sessions EXCEPT ![r] =
                   Some([op |-> "calculate_evaluation", phase |-> "loaded",
                         tender_id |-> tender_id, evaluation_type |-> evaluation_type,
                         technical_weight |-> technical_weight,
                         financial_weight |-> financial_weight, order |-> order,
                         loaded |-> bids, rows |-> evaluations])]
            /\ UNCHANGED <<tenderStatus, deadlinePassed, bids, evaluations, contracts,
                           response, trail>>

SessionRun(s) ==
    RankingRun(s.loaded, s.rows, s.order, s.evaluation_type, s.technical_weight,
               s.financial_weight)

\* calculate_evaluation, lines 253-327: the scores and ranks are computed on the
\* loaded bids, flushed and committed
CalculateCommit(r) ==
    /\ InFlight(r, "calculate_evaluation", "loaded")
    /\ \E run \in {SessionRun(Session(r))} :
          \E flushed \in {Flush(bids, Session(r).loaded, run.table)} :
             /\ bids' = flushed
             /\ response' = RespondFull("calculate_evaluation", "OK", run.rankings, None,
                    Some(EvaluationResult(Session(r).tender_id, Session(r).evaluation_type,
                                          Session(r).technical_weight,
                                          Session(r).financial_weight, flushed,
                                          SeqRange(Session(r).order), run.rankings)))
    /\ sessions' = [sessions EXCEPT ![r] = Some([Session(r) EXCEPT !.phase = "committed"])]
    /\ UNCHANGED <<tenderStatus, deadlinePassed, evaluations, contracts, trail>>

\* get_db: finally db.close().  The request has ended; its id is not used again.
SessionClose(r) ==
    /\ sessions[r] # None /\ Session(r).phase = "committed"
    /\ sessions' = [sessions EXCEPT ![r] = Some([op |-> Session(r).op, phase |-> "closed"])]
    /\ UNCHANGED <<tenderStatus, deadlinePassed, bids, evaluations, contracts, response, trail>>

-----------------------------------------------------------------------------
(* Specifications *)

\* The life cycle of tenders and bids and the award, from an empty database:
\* tenders as create_tender makes them (status DRAFT), no bids.
Init ==
    /\ tenderStatus = [t \in TenderIds |-> "Draft"]
    /\ deadlinePassed = [t \in TenderIds |-> FALSE]
    /\ bids = <<>>
    /\ evaluations = <<>>
    /\ contracts = <<>>
    /\ response = Respond("none", "NONE", <<>>)
    /\ sessions = [r \in RequestIds |-> None]
    /\ trail = [t \in TenderIds |-> <<"Draft">>]

Next ==
    \/ \E t \in TenderArgs : PublishTender(t)
    \/ \E t \in TenderArgs : CancelTender(t)
    \/ DeadlinePasses
    \/ \E t \in TenderArgs : StartEvaluation(t)
    \/ \E t \in TenderArgs, c \in BidderIds : CreateBid(t, c, Some(MaxAmount))
    \/ \E b \in BidArgs, c \in BidderIds, td \in BOOLEAN, fd \in BOOLEAN : SubmitBid(b, c, td, fd)
    \/ \E b \in BidArgs, c \in BidderIds : WithdrawBid(b, c)
    \/ \E t \in TenderArgs, b \in BidArgs : DeclareWinner(t, b)
    \/ \E t \in TenderArgs, b \in BidArgs : IssueLoi(t, b)

Spec == Init /\ [][Next]_vars

\* A database prepared for ranking: tender 1 has NumRankedBids bids, of bidders
\* 1..NumRankedBids, created and submitted before the deadline, with the amounts
\* up to MaxAmount in ascending order; tender 2 is a draft.
PreparedBids ==
    [i \in 1..NumRankedBids |->
        [NewBid(1, i, Some(MaxAmount - NumRankedBids + i)) EXCEPT !.status = "Submitted"]]

\* The evaluations table after the evaluator has scored the bids: scores[i] is
\* the score of bid i, None when the bid has not been scored.
PreparedEvaluationsOf(scores) ==
    LET scored == SelectSeq([i \in 1..NumRankedBids |-> i], LAMBDA i : scores[i] # None)
    IN  [k \in DOMAIN scored |->
            [tender_id |-> 1, bid_id |-> scored[k], evaluator_id |-> 1, criteria_id |-> 1,
             score |-> Val(scores[scored[k]])]]

\* Scores an evaluator may have given: below, at and above the qualifying score
PreparedScores ==
    {None} \cup {Some(QualifyingScore + k * ScoreUnit) : k \in (0 - 1)..1}

\* Bid 1 scored at the qualifying score and every other bid above it
PreparedEvaluations ==
    PreparedEvaluationsOf([i \in 1..NumRankedBids |->
        IF i = 1 THEN Some(QualifyingScore) ELSE Some(QualifyingScore + ScoreUnit)])

\* The amounts of the bids ranked under SpecAmounts: none, zero, two negative
\* amounts and two positive ones
RankedAmountChoices ==
    {None, Some(0), Some(0 - MaxAmount), Some(2 - MaxAmount), Some(MaxAmount - 1),
     Some(MaxAmount)}

\* The prepared bids with other amounts
PreparedBidsOf(amounts) ==
    [i \in 1..NumRankedBids |->
        [NewBid(1, i, amounts[i]) EXCEPT !.status = "Submitted"]]

\* Three bids with technical scores 80, 70, 90 and amounts 100, 90, 110 (the
\* amounts are counted in tens)
ScenarioAmounts ==
    [i \in 1..NumRankedBids |-> IF i <= 3 THEN <<Some(10), Some(9), Some(11)>>[i] ELSE None]

ScenarioEvaluations ==
    PreparedEvaluationsOf(
        [i \in 1..NumRankedBids |-> IF i <= 3 THEN <<Some(80), Some(70), Some(90)>>[i] ELSE None])

PreparedTrail(status) ==
    [t \in TenderIds |->
        IF t # 1 THEN <<"Draft">>
        ELSE IF status = "Published" THEN <<"Draft", "Published">>
        ELSE <<"Draft", "Published", "Under Evaluation">>]

\* Scoring, one request at a time.  The deadline of tender 1 has passed with
\* its bids submitted; evaluation has not started.
InitScore ==
    /\ tenderStatus = [t \in TenderIds |-> IF t = 1 THEN "Published" ELSE "Draft"]
    /\ deadlinePassed = [t \in TenderIds |-> TRUE]
    /\ bids = PreparedBids
    /\ evaluations = <<>>
    /\ contracts = <<>>
    /\ response = Respond("none", "NONE", <<>>)
    /\ sessions = [r \in RequestIds |-> None]
    /\ trail = PreparedTrail("Published")

NextScore ==
    \/ \E t \in TenderIds : StartEvaluation(t)
    \/ \E b \in BidIds, u \in UserArgs, c \in CriteriaArgs, score \in ScoreChoices :
          EvaluateBid(b, u, c, score)

SpecScore == InitScore /\ [][NextScore]_vars

\* Ranking, one request at a time.  Tender 1 is under evaluation and the
\* evaluator has scored some of its bids.
InitRank ==
    /\ tenderStatus = [t \in TenderIds |-> IF t = 1 THEN "Under Evaluation" ELSE "Draft"]
    /\ deadlinePassed = [t \in TenderIds |-> TRUE]
    /\ bids = PreparedBids
    /\ \E scores \in [1..NumRankedBids -> PreparedScores] :
          evaluations = PreparedEvaluationsOf(scores)
    /\ contracts = <<>>
    /\ response = Respond("none", "NONE", <<>>)
    /\ sessions = [r \in RequestIds |-> None]
    /\ trail = PreparedTrail("Under Evaluation")

NextRank ==
    \/ \E t \in TenderIds : CancelTender(t)
    \/ \E t \in TenderArgs, ty \in EvaluationType, tw \in WeightChoices :
          \E order \in Orderings(SubmittedBids(bids, t)) :
             CalculateEvaluation(t, ty, tw, Scale - tw, order)

SpecRank == InitRank /\ [][NextRank]_vars

\* The rows evaluate_bid may have added for the prepared bids: one evaluator's
\* score, within the criterion's max_score, for one criterion of one bid
EntryChoices ==
    {[tender_id |-> 1, bid_id |-> b, evaluator_id |-> u, criteria_id |-> c, score |-> score] :
        b \in 1..NumRankedBids, u \in EvaluatorIds, c \in CriteriaIds,
        score \in {x \in ScoreChoices : x >= 0 /\ x <= DefaultMaxScore}}

\* Ranking of bids with several score entries, one request at a time.  Tender 1
\* is under evaluation; the evaluators have sent up to MaxEvaluations scores,
\* one request after the other, so no two rows have the same key.
InitEntries ==
    /\ tenderStatus = [t \in TenderIds |-> IF t = 1 THEN "Under Evaluation" ELSE "Draft"]
    /\ deadlinePassed = [t \in TenderIds |-> TRUE]
    /\ bids = PreparedBids
    /\ \E n \in 0..MaxEvaluations : \E rows \in [1..n -> EntryChoices] :
          /\ \A i, j \in 1..n :
                i < j => <<rows[i].bid_id, rows[i].evaluator_id, rows[i].criteria_id>>
                            # <<rows[j].bid_id, rows[j].evaluator_id, rows[j].criteria_id>>
          /\ evaluations = rows
    /\ contracts = <<>>
    /\ response = Respond("none", "NONE", <<>>)
    /\ sessions = [r \in RequestIds |-> None]
    /\ trail = PreparedTrail("Under Evaluation")

NextEntries ==
    \E t \in TenderArgs, ty \in EvaluationType :
       \E order \in Orderings(SubmittedBids(bids, t)) :
          CalculateEvaluation(t, ty, DefaultTechnicalWeight, DefaultFinancialWeight, order)

SpecEntries == InitEntries /\ [][NextEntries]_vars

\* Ranking of bids of any amounts, one request at a time.  Tender 1 is under
\* evaluation; every bid is scored at or above the qualifying score.
InitAmounts ==
    /\ tenderStatus = [t \in TenderIds |-> IF t = 1 THEN "Under Evaluation" ELSE "Draft"]
    /\ deadlinePassed = [t \in TenderIds |-> TRUE]
    /\ \/ /\ \E amounts \in [1..NumRankedBids -> RankedAmountChoices] :
                bids = PreparedBidsOf(amounts)
          /\ evaluations = PreparedEvaluations
       \/ /\ bids = PreparedBidsOf(ScenarioAmounts)
          /\ evaluations = ScenarioEvaluations
    /\ contracts = <<>>
    /\ response = Respond("none", "NONE", <<>>)
    /\ sessions = [r \in RequestIds |-> None]
    /\ trail = PreparedTrail("Under Evaluation")

NextAmounts ==
    \E t \in TenderArgs, ty \in EvaluationType, tw \in WeightChoices :
       \E order \in Orderings(SubmittedBids(bids, t)) :
          CalculateEvaluation(t, ty, tw, Scale - tw, order)

SpecAmounts == InitAmounts /\ [][NextAmounts]_vars

\* Ranking, statement and award, one request at a time.  Tender 1 is under
\* evaluation with its bids submitted; the evaluator has scored none of them,
\* or all of them.
InitAward ==
    /\ tenderStatus = [t \in TenderIds |-> IF t = 1 THEN "Under Evaluation" ELSE "Draft"]
    /\ deadlinePassed = [t \in TenderIds |-> TRUE]
    /\ bids = PreparedBids
    /\ evaluations \in {<<>>, PreparedEvaluations, ScenarioEvaluations}
    /\ contracts = <<>>
    /\ response = Respond("none", "NONE", <<>>)
    /\ sessions = [r \in RequestIds |-> None]
    /\ trail = PreparedTrail("Under Evaluation")

NextAward ==
    \/ \E t \in TenderArgs, ty \in EvaluationType :
          \E order \in Orderings(SubmittedBids(bids, t)) :
             CalculateEvaluation(t, ty, DefaultTechnicalWeight, DefaultFinancialWeight, order)
    \/ \E t \in TenderArgs :
          \E order \in Orderings(StatementBids(bids, t)) : GetComparativeStatement(t, order)
    \/ \E t \in TenderArgs, b \in 1..(NumRankedBids + 1) : DeclareWinner(t, b)

SpecAward == InitAward /\ [][NextAward]_vars

\* Evaluators' requests in flight together: tender 1 is under evaluation.
InitConcEval ==
    /\ tenderStatus = [t \in TenderIds |-> IF t = 1 THEN "Under Evaluation" ELSE "Draft"]
    /\ deadlinePassed = [t \in TenderIds |-> TRUE]
    /\ bids = PreparedBids
    /\ evaluations = <<>>
    /\ contracts = <<>>
    /\ response = Respond("none", "NONE", <<>>)
    /\ sessions = [r \in RequestIds |-> None]
    /\ trail = PreparedTrail("Under Evaluation")

NextConcEval ==
    \/ \E r \in RequestIds, b \in BidIds, u \in UserArgs, c \in CriteriaArgs,
          score \in ScoreChoices : EvaluateBidBegin(r, b, u, c, score)
    \/ \E r \in RequestIds : EvaluateBidCommit(r)
    \/ \E r \in RequestIds : SessionClose(r)

SpecConcEval == InitConcEval /\ [][NextConcEval]_vars

\* Ranking requests in flight together: tender 1 is under evaluation, its bids
\* are scored, and an L1 run has ranked them.
InitConcRank ==
    /\ tenderStatus = [t \in TenderIds |-> IF t = 1 THEN "Under Evaluation" ELSE "Draft"]
    /\ deadlinePassed = [t \in TenderIds |-> TRUE]
    /\ \E order \in Orderings(SubmittedBids(PreparedBids, 1)) :
          bids = RankingRun(PreparedBids, PreparedEvaluations, order, "L1",
                            DefaultTechnicalWeight, DefaultFinancialWeight).table
    /\ evaluations = PreparedEvaluations
    /\ contracts = <<>>
    /\ response = Respond("none", "NONE", <<>>)
    /\ sessions = [r \in RequestIds |-> None]
    /\ trail = PreparedTrail("Under Evaluation")

NextConcRank ==
    \/ \E r \in RequestIds, t \in TenderArgs, ty \in EvaluationType, tw \in WeightChoices :
          \E order \in Orderings(SubmittedBids(bids, t)) :
             CalculateBegin(r, t, ty, tw, Scale - tw, order)
    \/ \E r \in RequestIds : CalculateCommit(r)
    \/ \E r \in RequestIds : SessionClose(r)

SpecConcRank == InitConcRank /\ [][NextConcRank]_vars

-----------------------------------------------------------------------------
(* Properties of the award transition, checked under Spec *)

AwardedBids(table, tender_id) ==
    {b \in DOMAIN table : table[b].tender_id = tender_id /\ table[b].status = "Awarded"}

BelongsTo(bid_id, tender_id) == BidExists(bid_id) /\ bids[bid_id].tender_id = tender_id

\* C1: after a successful declare_winner(T, B) the bid B is the one AWARDED bid
\* of T, every other bid of T is REJECTED, and T is AWARDED.
C1_DeclareWinnerPostcondition ==
    [][\A t \in TenderArgs, b \in BidArgs :
         (response'.op = "declare_winner" /\ response'.code = "OK" /\ DeclareWinner(t, b)) =>
            /\ tenderStatus'[t] = "Awarded"
            /\ AwardedBids(bids', t) = {b}
            /\ \A o \in DOMAIN bids' :
                   (bids'[o].tender_id = t /\ o # b) => bids'[o].status = "Rejected"]_vars

\* Witness of C1: declare_winner has just succeeded on a tender with two bids,
\* one now AWARDED and the other REJECTED.
C1_Witness ==
    /\ response.op = "declare_winner" /\ response.code = "OK"
    /\ \E t \in TenderIds : \E b, o \in BidsOfTender(t) :
          /\ b # o
          /\ tenderStatus[t] = "Awarded"
          /\ bids[b].status = "Awarded"
          /\ bids[o].status = "Rejected"

\* C2: every declare_winner call either is rejected and leaves the bids as they
\* were, or leaves exactly one AWARDED bid in the tender, whatever was awarded
\* there before the call.
C2_ReinvocationKeepsOneWinner ==
    [][\A t \in TenderArgs, b \in BidArgs :
         (response'.op = "declare_winner" /\ DeclareWinner(t, b)) =>
            IF response'.code = "OK"
            THEN Cardinality(AwardedBids(bids', t)) = 1
            ELSE bids' = bids]_vars

\* Witness of C2: declare_winner has just succeeded on a tender, and a bid of
\* that tender for which a contract was issued (so it had been AWARDED) is now
\* REJECTED: the winner was flipped by a later call.
C2_Witness ==
    /\ response.op = "declare_winner" /\ response.code = "OK"
    /\ \E c \in DOMAIN contracts :
          /\ bids[contracts[c].bid_id].status = "Rejected"
          /\ tenderStatus[bids[contracts[c].bid_id].tender_id] = "Awarded"
          /\ Cardinality(AwardedBids(bids, bids[contracts[c].bid_id].tender_id)) = 1

\* C3: declare_winner with a bid that is not a bid of the stated tender is
\* rejected, and no tender status and no bid changes.
C3_ForeignBidRejected ==
    [][\A t \in TenderArgs, b \in BidArgs :
         (response'.op = "declare_winner" /\ ~BelongsTo(b, t) /\ DeclareWinner(t, b)) =>
            /\ response'.code \in {"TENDER_NOT_FOUND", "BID_NOT_FOUND"}
            /\ UNCHANGED <<tenderStatus, bids>>]_vars

\* Witness of C3: declare_winner has just answered "Bid not found" while every
\* bid id a caller may send exists and no tender is without a bid: the bid
\* named was a bid of another tender.  Neither bid was awarded or rejected.
C3_Witness ==
    /\ response.op = "declare_winner" /\ response.code = "BID_NOT_FOUND"
    /\ \A b \in BidArgs : BidExists(b)
    /\ \A t \in TenderIds : BidsOfTender(t) # {}
    /\ \A b \in BidIds : bids[b].status \notin {"Awarded", "Rejected"}

\* C4: declare_winner for a bid of a tender whose status is neither
\* UNDER_EVALUATION nor EVALUATED fails with 400 and changes no tender status
\* and no bid.
C4_AwardNeedsQualifyingState ==
    [][\A t \in TenderIds, b \in BidArgs :
         (response'.op = "declare_winner" /\ BelongsTo(b, t)
             /\ tenderStatus[t] \notin {"Under Evaluation", "Evaluated"}
             /\ DeclareWinner(t, b)) =>
            /\ response'.code = "BAD_REQUEST"
            /\ UNCHANGED <<tenderStatus, bids>>]_vars

\* C5: a ranking run requested while the tender is not UNDER_EVALUATION fails
\* with 400 and writes no derived field of any bid.  Checked under SpecRank.
C5_RankingOnlyUnderEvaluation ==
    [][\A t \in TenderIds, ty \in EvaluationType, tw \in WeightChoices :
         \A order \in Orderings(SubmittedBids(bids, t)) :
            (response'.op = "calculate_evaluation"
                /\ tenderStatus[t] # "Under Evaluation"
                /\ CalculateEvaluation(t, ty, tw, Scale - tw, order)) =>
               /\ response'.code = "BAD_REQUEST"
               /\ \A b \in DOMAIN bids : \A f \in DerivedFields :
                      bids'[b][f] = bids[b][f]]_vars

\* Position of the first occurrence of a status in a trail, 0 when absent
FirstAt(seq, status) ==
    IF \E i \in DOMAIN seq : seq[i] = status
    THEN CHOOSE i \in DOMAIN seq : seq[i] = status /\ \A j \in 1..(i - 1) : seq[j] # status
    ELSE 0

\* C6: a tender that is AWARDED was EVALUATED at an earlier point, and
\* UNDER_EVALUATION before that.
C6_AwardedAfterEvaluated ==
    \A t \in TenderIds :
        tenderStatus[t] = "Awarded" =>
            \E i, j \in DOMAIN trail[t] :
                /\ i < j
                /\ trail[t][i] = "Under Evaluation"
                /\ trail[t][j] = "Evaluated"
                /\ j < FirstAt(trail[t], "Awarded")

\* C7: declare_winner changes a bid to AWARDED or REJECTED only from QUALIFIED
\* or SHORTLISTED.
C7_AwardOnlyFromQualified ==
    [][\A t \in TenderArgs, b \in BidArgs :
         (response'.op = "declare_winner" /\ DeclareWinner(t, b)) =>
            \A x \in DOMAIN bids :
                (bids'[x].status # bids[x].status
                    /\ bids'[x].status \in {"Awarded", "Rejected"}) =>
                   bids[x].status \in {"Qualified", "Shortlisted"}]_vars

-----------------------------------------------------------------------------
(* Properties of the score entries *)

ScoreKeys == BidIds \X UserArgs \X CriteriaArgs

\* The scores stored under a key
ScoresAt(rows, key) == {rows[e].score : e \in Matching(rows, key[1], key[2], key[3])}

\* C8: with evaluate_bid requests run one after the other, every step leaves at
\* most one entry per (bid, evaluator, criterion); an accepted submission leaves
\* its score under its key and the other keys as they were; nothing else
\* changes the entries.  Checked under SpecScore.
C8_SequentialUpsert ==
    [][IF response'.op = "evaluate_bid" /\ response'.code = "OK"
       THEN /\ \A key \in ScoreKeys :
                  Cardinality(Matching(evaluations', key[1], key[2], key[3])) <= 1
            /\ \A key \in ScoreKeys, score \in ScoreChoices :
                  EvaluateBid(key[1], key[2], key[3], score) =>
                     /\ ScoresAt(evaluations', key) = {score}
                     /\ \A other \in ScoreKeys \ {key} :
                            ScoresAt(evaluations', other) = ScoresAt(evaluations, other)
       ELSE evaluations' = evaluations]_vars

\* Witness of C8: the last request was an accepted evaluate_bid that returned
\* a row which is not the newest one, so it replaced the score of an entry
\* stored earlier; its key still has one entry.
C8_Witness ==
    /\ response.op = "evaluate_bid" /\ response.code = "OK"
    /\ response.id # None /\ Val(response.id) < Len(evaluations)
    /\ \A key \in ScoreKeys : Cardinality(Matching(evaluations, key[1], key[2], key[3])) <= 1

\* C9: with evaluate_bid requests in flight together, there is never more than
\* one entry per (bid, evaluator, criterion).  Checked under SpecConcEval.
C9_NoDuplicateEntry ==
    \A b \in BidIds, u \in UserArgs, c \in CriteriaArgs :
        Cardinality(Matching(evaluations, b, u, c)) <= 1

-----------------------------------------------------------------------------
(* Properties of ranking runs in flight together *)

\* One whole ranking run with the parameters of session s on the bids `table`,
\* the bids query returning the rows in `order`
ApplyRun(table, s, order) ==
    CHOOSE after \in {Flush(table, table, run.table) :
                         run \in {RankingRun(table, s.rows, order, s.evaluation_type,
                                             s.technical_weight, s.financial_weight)}} : TRUE

\* `result` is the bids table after the run of session `first` and then the
\* run of session `second`, each from start to end on the bids `table`,
\* whatever order the queries return
SerialOutcome(table, first, second, result) ==
    \E o1 \in Orderings(SubmittedBids(table, first.tender_id)) :
       \E between \in {ApplyRun(table, first, o1)} :
          \E o2 \in Orderings(SubmittedBids(between, second.tender_id)) :
             result = ApplyRun(between, second, o2)

\* C10: when two ranking runs of a tender that read the same bids have both
\* committed, the bids are as one of the two serial executions leaves them.
\* Checked under SpecConcRank.
C10_RankingRunsSerialized ==
    \A r1, r2 \in RequestIds :
        (/\ r1 # r2
         /\ InFlight(r1, "calculate_evaluation", "committed")
         /\ InFlight(r2, "calculate_evaluation", "committed")
         /\ Session(r1).tender_id = Session(r2).tender_id
         /\ Session(r1).loaded = Session(r2).loaded) =>
           \/ SerialOutcome(Session(r1).loaded, Session(r1), Session(r2), bids)
           \/ SerialOutcome(Session(r1).loaded, Session(r2), Session(r1), bids)

-----------------------------------------------------------------------------
(* Properties of a ranking run, one request at a time *)

\* A step is a ranking run that returned its result
RankingStep == response'.op = "calculate_evaluation" /\ response'.code = "OK"

\* The EvaluationResultResponse a ranking run has just returned
Result == Val(response.result)

\* The bids with no derived field set, as before any ranking run
ClearDerived(table) ==
    [b \in DOMAIN table |->
        [f \in DOMAIN table[b] |-> IF f \in DerivedFields THEN None ELSE table[b][f]]]

\* C11: a ranking run leaves the derived fields of every submitted bid of the
\* tender as a run on bids that were never ranked leaves them: they depend on
\* the score entries, the amounts and the method of this run only, not on an
\* earlier run.  Checked under SpecRank.
C11_RunOverwritesDerivedFields ==
    [][RankingStep =>
         \A t \in TenderIds, ty \in EvaluationType, tw \in WeightChoices :
            \A order \in Orderings(SubmittedBids(bids, t)) :
               CalculateEvaluation(t, ty, tw, Scale - tw, order) =>
                  \E fresh \in {RankingRun(ClearDerived(bids), evaluations, order, ty, tw,
                                            Scale - tw).table} :
                     \A b \in SubmittedBids(bids, t), f \in DerivedFields :
                        bids'[b][f] = fresh[b][f]]_vars

\* The bids a run of the method ranks: all the bids loaded (T1), or those of
\* them that are qualified and have an amount (L1, QCBS; lines 264 and 297)
CandidateSet(table, tender_id, evaluation_type) ==
    CASE evaluation_type = "T1" -> SubmittedBids(table, tender_id)
      [] evaluation_type \in {"L1", "QCBS"} ->
            {b \in SubmittedBids(table, tender_id) :
                TruthyBool(table[b].is_qualified) /\ TruthyNum(table[b].financial_amount)}
      [] OTHER -> {}

\* C12: after an L1, T1 or QCBS run the rankings list has one entry for each
\* bid of the run's candidate set, and the ranks given to these N bids are
\* 1..N, each once.  Checked under SpecRank.
C12_RanksArePermutation ==
    [][(RankingStep /\ Val(response'.result).evaluation_type \in {"L1", "T1", "QCBS"}) =>
         LET res == Val(response'.result)
             cand == CandidateSet(bids', res.tender_id, res.evaluation_type)
             N == Cardinality(cand)
         IN  /\ Len(res.rankings) = N
             /\ {res.rankings[k].bid_id : k \in DOMAIN res.rankings} = cand
             /\ \A k \in DOMAIN res.rankings :
                   /\ res.rankings[k].rank = k
                   /\ bids'[res.rankings[k].bid_id].rank = Some(k)
             /\ {bids'[b].rank : b \in cand} = {Some(k) : k \in 1..N}]_vars

\* A QCBS run has ranked all the bids of the tender
C12_Witness ==
    /\ response.op = "calculate_evaluation" /\ response.code = "OK"
    /\ Result.evaluation_type = "QCBS"
    /\ Len(Result.rankings) = NumRankedBids
    /\ {bids[b].rank : b \in SubmittedBids(bids, 1)} = {Some(k) : k \in 1..NumRankedBids}

\* The submitted bids of the tender that have no score entry
UnscoredBids(table, rows, tender_id) ==
    {b \in SubmittedBids(table, tender_id) : EvaluationsOfBid(rows, b) = {}}

\* C13: a bid with no score entry has a null technical_score, whatever
\* ranking runs there have been.  Checked under SpecRank.
C13_UnscoredBidStaysNull ==
    \A b \in BidIds : EvaluationsOfBid(evaluations, b) = {} => bids[b].technical_score = None

\* A T1 run has ranked a bid that has no score entry, after an earlier run
C13_Witness ==
    /\ response.op = "calculate_evaluation" /\ response.code = "OK"
    /\ Result.evaluation_type = "T1"
    /\ \E b \in UnscoredBids(bids, evaluations, 1) :
          /\ bids[b].rank # None /\ bids[b].technical_score = None
          /\ \E k \in DOMAIN Result.rankings : Result.rankings[k].bid_id = b
    /\ \E b \in BidIds : bids[b].combined_score # None

\* C14: a T1 run gives no rank to a bid that has no score entry and does not
\* list it in the rankings.  Checked under SpecRank.
C14_UnscoredBidNotInT1 ==
    [][(RankingStep /\ Val(response'.result).evaluation_type = "T1") =>
         \A b \in UnscoredBids(bids, evaluations, Val(response'.result).tender_id) :
            /\ bids'[b].rank = bids[b].rank
            /\ \A k \in DOMAIN response'.rankings : response'.rankings[k] # b]_vars

\* C15: a T1 run ranks all the submitted bids of the tender, qualified or not,
\* by technical_score from the highest down, a null score counting as 0.
\* Checked under SpecRank.
C15_T1RanksAllByScore ==
    [][(RankingStep /\ Val(response'.result).evaluation_type = "T1") =>
         LET ranked == response'.rankings
         IN  /\ SeqRange(ranked) = SubmittedBids(bids, Val(response'.result).tender_id)
             /\ Len(ranked) = Cardinality(SeqRange(ranked))
             /\ \A i \in DOMAIN ranked : bids'[ranked[i]].rank = Some(i)
             /\ \A i \in 1..(Len(ranked) - 1) :
                   OrZero(bids'[ranked[i]].technical_score)
                      >= OrZero(bids'[ranked[i + 1]].technical_score)]_vars

\* A T1 run has ranked a qualified bid, below it a bid that is not qualified,
\* and last a bid with a null score
C15_Witness ==
    /\ response.op = "calculate_evaluation" /\ response.code = "OK"
    /\ Result.evaluation_type = "T1"
    /\ Len(response.rankings) = NumRankedBids
    /\ bids[response.rankings[1]].is_qualified = Some(TRUE)
    /\ \E i \in DOMAIN response.rankings : bids[response.rankings[i]].is_qualified = Some(FALSE)
    /\ bids[response.rankings[NumRankedBids]].technical_score = None

-----------------------------------------------------------------------------
(* Properties of a ranking run over bids of any amounts *)

\* C16: an L1 run ranks exactly the qualified bids that have an amount, by
\* amount from the lowest up, bids of equal amount in the order of their ids.
\* Checked under SpecAmounts.
C16_L1ByAmountThenId ==
    [][(RankingStep /\ Val(response'.result).evaluation_type = "L1") =>
         LET ranked == response'.rankings
             t == Val(response'.result).tender_id
         IN  /\ SeqRange(ranked) =
                   {b \in SubmittedBids(bids', t) :
                       bids'[b].is_qualified = Some(TRUE) /\ bids'[b].financial_amount # None}
             /\ \A i \in 1..(Len(ranked) - 1) :
                   \/ Val(bids'[ranked[i]].financial_amount)
                         < Val(bids'[ranked[i + 1]].financial_amount)
                   \/ /\ bids'[ranked[i]].financial_amount
                            = bids'[ranked[i + 1]].financial_amount
                      /\ ranked[i] < ranked[i + 1]]_vars

Abs(n) == n * Sign(n)

\* C17: after a QCBS run every candidate has financial_score = (lowest
\* candidate amount / its amount) x 100 and combined_score = technical_score x
\* technical_weight + financial_score x financial_weight, both to the two
\* digits stored; the cheapest candidate has financial_score 100 and none has
\* more.  Scores are counted in hundredths.  Checked under SpecAmounts.
C17_QCBSScores ==
    [][(RankingStep /\ Val(response'.result).evaluation_type = "QCBS") =>
         LET res == Val(response'.result)
             cand == CandidateSet(bids', res.tender_id, "QCBS")
             amount == [b \in cand |-> Val(bids'[b].financial_amount)]
             tw == Val(res.weights).technical
             fw == Val(res.weights).financial
         IN  \A b \in cand :
                LET lowest == CHOOSE m \in {amount[c] : c \in cand} :
                                 \A c \in cand : m <= amount[c]
                    fs == Val(bids'[b].financial_score)
                    cs == Val(bids'[b].combined_score)
                    exact == Val(bids'[b].technical_score) * tw * amount[b]
                             + lowest * Scale * Scale * fw
                IN  /\ 2 * Abs(fs * amount[b] - lowest * Scale * Scale) <= Abs(amount[b])
                    /\ 2 * Abs(cs * Scale * amount[b] - exact) <= Scale * Abs(amount[b])
                    /\ amount[b] = lowest => fs = 100 * Scale
                    /\ fs <= 100 * Scale]_vars

\* The bids and score entries are those of the scenario: technical scores 80,
\* 70, 90 and amounts 100, 90, 110
IsScenario ==
    /\ evaluations = ScenarioEvaluations
    /\ \A i \in 1..NumRankedBids : bids[i].financial_amount = ScenarioAmounts[i]

\* C18: a QCBS run lists its candidates by combined_score from the highest
\* down, labelled QCBS-1, QCBS-2, ..., the first with status Recommended; in
\* the scenario with weights 0.7 / 0.3 the order is bid 3, bid 1, bid 2.
\* Checked under SpecAmounts.
C18_QCBSOrder ==
    [][(RankingStep /\ Val(response'.result).evaluation_type = "QCBS") =>
         LET res == Val(response'.result)
             ranked == res.rankings
         IN  /\ \A i \in 1..(Len(ranked) - 1) :
                   Val(bids'[ranked[i].bid_id].combined_score)
                      >= Val(bids'[ranked[i + 1].bid_id].combined_score)
             /\ \A k \in DOMAIN ranked :
                   /\ ranked[k].label = <<"QCBS-", k>>
                   /\ ranked[k].status = "Recommended" <=> k = 1
             /\ (IsScenario /\ Val(res.weights).technical = DefaultTechnicalWeight
                            /\ Val(res.weights).financial = DefaultFinancialWeight) =>
                   response'.rankings = <<3, 1, 2>>]_vars

\* The QCBS run of the scenario has returned bid 3, bid 1, bid 2
C18_Witness ==
    /\ response.op = "calculate_evaluation" /\ response.code = "OK"
    /\ Result.evaluation_type = "QCBS"
    /\ IsScenario
    /\ Val(Result.weights).technical = DefaultTechnicalWeight
    /\ response.rankings = <<3, 1, 2>>
    /\ Result.rankings[1].status = "Recommended"
    /\ bids[3].combined_score = Some(8755) /\ bids[1].combined_score = Some(8300)
    /\ bids[2].combined_score = Some(7900)

-----------------------------------------------------------------------------
(* Properties of the technical score, checked under SpecEntries *)

RECURSIVE SumOverPairs(_, _, _)
\* The sum over the (evaluator, criterion) pairs of the score the pair gave the
\* bid, if any, times the weight of the criterion (in hundredths)
SumOverPairs(rows, bid_id, pairs) ==
    IF pairs = {} THEN 0
    ELSE LET p == CHOOSE x \in pairs : TRUE
             entries == Matching(rows, bid_id, p[1], p[2])
         IN  (IF entries = {} THEN 0
              ELSE rows[CHOOSE e \in entries : TRUE].score * Criteria[p[2]].weight)
             + SumOverPairs(rows, bid_id, pairs \ {p})

\* C19: after a ranking run the technical_score of every submitted bid that
\* has score entries is the sum, each (evaluator, criterion) pair counted
\* once, of score x weight of the criterion.  Checked under SpecEntries.
C19_TechnicalScoreIsWeightedSum ==
    [][RankingStep =>
         \A b \in SubmittedBids(bids, Val(response'.result).tender_id) :
            EvaluationsOfBid(evaluations, b) # {} =>
               bids'[b].technical_score =
                  Some(SumOverPairs(evaluations, b, EvaluatorIds \X CriteriaIds))]_vars

\* A run has scored a bid that two evaluators scored, on two criteria of
\* different weights
C19_Witness ==
    /\ response.op = "calculate_evaluation" /\ response.code = "OK"
    /\ \E b \in BidIds : \E e1, e2 \in EvaluationsOfBid(evaluations, b) :
          /\ evaluations[e1].evaluator_id # evaluations[e2].evaluator_id
          /\ Criteria[evaluations[e1].criteria_id].weight
                # Criteria[evaluations[e2].criteria_id].weight
          /\ evaluations[e1].score > 0 /\ evaluations[e2].score > 0
          /\ bids[b].technical_score =
                Some(evaluations[e1].score * Criteria[evaluations[e1].criteria_id].weight
                     + evaluations[e2].score * Criteria[evaluations[e2].criteria_id].weight)

-----------------------------------------------------------------------------
(* Properties of the qualification gate, checked under SpecRank *)

\* The bid has an aggregated technical score, and it is at least 60
PassesGate(bid) ==
    bid.technical_score # None /\ Val(bid.technical_score) >= QualifyingScore * Scale

\* C20: after a ranking run a submitted bid of the tender counts as qualified
\* exactly when it has a technical score of at least 60; a bid with no score
\* entry does not count as qualified, is not in an L1 or QCBS ranking and is
\* counted in disqualified_bids; and the run does not end in an error.
\* Checked under SpecRank.
C20_QualificationGate ==
    [][response'.op = "calculate_evaluation" =>
         /\ response'.code \in {"OK", "TENDER_NOT_FOUND", "BAD_REQUEST"}
         /\ response'.code = "OK" =>
               LET res == Val(response'.result)
                   loaded == SubmittedBids(bids, res.tender_id)
               IN  /\ \A b \in loaded :
                         TruthyBool(bids'[b].is_qualified) <=> PassesGate(bids'[b])
                   /\ \A b \in UnscoredBids(bids, evaluations, res.tender_id) :
                         /\ ~TruthyBool(bids'[b].is_qualified)
                         /\ res.evaluation_type \in {"L1", "QCBS"} =>
                               \A k \in DOMAIN res.rankings : res.rankings[k].bid_id # b
                   /\ res.qualified_bids
                         = Cardinality({b \in loaded : PassesGate(bids'[b])})
                   /\ res.disqualified_bids
                         = Cardinality({b \in loaded : ~PassesGate(bids'[b])})]_vars

\* An L1 run has ranked a bid scored exactly 60 and has counted as disqualified
\* a bid scored below 60 and a bid with no score entry
C20_Witness ==
    /\ response.op = "calculate_evaluation" /\ response.code = "OK"
    /\ Result.evaluation_type = "L1"
    /\ Result.qualified_bids = 1 /\ Result.disqualified_bids = 2
    /\ Len(Result.rankings) = 1
    /\ bids[Result.rankings[1].bid_id].technical_score = Some(QualifyingScore * Scale)
    /\ UnscoredBids(bids, evaluations, 1) # {}
    /\ \E b \in BidIds : bids[b].is_qualified = Some(FALSE)

-----------------------------------------------------------------------------
(* Properties of the stored scores, of repeated runs and of the award *)

\* A score is out of the range of criterion c: below 0, or above its max_score
OutOfRange(criteria_id, score) ==
    \/ score < 0
    \/ criteria_id \in CriteriaIds /\ score > Criteria[criteria_id].max_score

\* C21: after every step each stored entry has 0 <= score <= max_score of its
\* criterion, and an evaluate_bid request with a score below 0 or above the
\* max_score of its criterion is rejected and leaves the entries as they were.
\* Checked under SpecScore.
C21_StoredScoresInRange ==
    [][/\ \A e \in DOMAIN evaluations' :
             /\ evaluations'[e].score >= 0
             /\ evaluations'[e].score <= Criteria[evaluations'[e].criteria_id].max_score
       /\ \A b \in BidIds, u \in UserArgs, c \in CriteriaArgs, score \in ScoreChoices :
             OutOfRange(c, score) /\ EvaluateBid(b, u, c, score) =>
                 /\ response'.code \notin {"OK", "NONE"}
                 /\ evaluations' = evaluations]_vars

\* Witness of C21: with tender 1 under evaluation and an entry stored at the
\* highest score below max_score, the last request was an evaluate_bid
\* rejected for its negative score, and the entry is still in range.
C21_Witness ==
    /\ tenderStatus[1] = "Under Evaluation"
    /\ response.op = "evaluate_bid" /\ response.code = "UNPROCESSABLE"
    /\ \E e \in DOMAIN evaluations :
          /\ evaluations[e].score + ScoreUnit > Criteria[evaluations[e].criteria_id].max_score
          /\ evaluations[e].score <= Criteria[evaluations[e].criteria_id].max_score

\* The last request was a ranking run that returned its result, and this step
\* is a run of the same tender by the same method with the same weights (the
\* weights are parameters of QCBS only: the other branches never read them)
SameRunAgain ==
    /\ response.op = "calculate_evaluation" /\ response.code = "OK"
    /\ RankingStep
    /\ Val(response'.result).tender_id = Result.tender_id
    /\ Val(response'.result).evaluation_type = Result.evaluation_type
    /\ Val(response'.result).weights = Result.weights

\* C22: a ranking run that follows a run of the same tender by the same method
\* with the same weights, the score entries and amounts unchanged between the
\* two, leaves the rank and the combined_score of every bid as the first run
\* left them.  Checked under SpecRank, where only ranking runs write them.
C22_RerunIsIdempotent ==
    [][SameRunAgain /\ evaluations' = evaluations =>
          \A b \in BidIds :
             /\ bids'[b].financial_amount = bids[b].financial_amount
                   => /\ bids'[b].rank = bids[b].rank
                      /\ bids'[b].combined_score = bids[b].combined_score]_vars

\* What C23 asks of one calculate_evaluation request for tender t by method ty
RunAnswersAsClaimed(t, ty) ==
    /\ response'.code = "BAD_REQUEST" <=> (TenderExists(t) /\ SubmittedBids(bids, t) = {})
    /\ response'.code = "OK" <=> (TenderExists(t) /\ SubmittedBids(bids, t) # {})
    /\ response'.code # "OK" => bids' = bids
    /\ response'.code = "OK" /\ CandidateSet(bids', t, ty) = {}
          => Val(response'.result).rankings = <<>>

\* C23: a ranking run of a tender that has a submitted bid returns its result,
\* with an empty rankings list when its candidate set is empty; a run is
\* refused for want of bids exactly when the tender has no submitted bid, and
\* a refused run writes no field of any bid: in no reachable state can a
\* request be answered otherwise.  Checked under SpecRank.
C23_EmptyCandidateSetSucceeds ==
    \A t \in TenderArgs, ty \in EvaluationType, tw \in WeightChoices :
       \A order \in Orderings(SubmittedBids(bids, t)) :
          ~ENABLED (/\ CalculateEvaluation(t, ty, tw, Scale - tw, order)
                    /\ ~RunAnswersAsClaimed(t, ty))

\* Witness of C23: an L1 or QCBS run of tender 1, whose three bids are
\* submitted and none is qualified, has returned an empty rankings list.
C23_Witness ==
    /\ response.op = "calculate_evaluation" /\ response.code = "OK"
    /\ Result.evaluation_type \in {"L1", "QCBS"} /\ Result.tender_id = 1
    /\ Cardinality(SubmittedBids(bids, 1)) = NumRankedBids
    /\ Result.qualified_bids = 0
    /\ Result.rankings = <<>>

\* The submitted bids of the tender whose financial_amount is zero or negative
NonPositiveBids(table, tender_id) ==
    {b \in SubmittedBids(table, tender_id) :
        table[b].financial_amount # None /\ Val(table[b].financial_amount) <= 0}

\* C24: a QCBS run over a tender that has a bid of zero or negative
\* financial_amount leaves that bid out: it lists no such bid in its rankings
\* and writes no financial_score, combined_score or rank for it.  (The error
\* the run is to report has no place in the answer, EvaluationResultResponse;
\* the exclusion is the part that can be observed.)  Checked under SpecAmounts.
C24_NonPositiveAmountExcluded ==
    [][(RankingStep /\ Val(response'.result).evaluation_type = "QCBS") =>
          LET res == Val(response'.result)
          IN  \A b \in NonPositiveBids(bids, res.tender_id) :
                 /\ \A k \in DOMAIN res.rankings : res.rankings[k].bid_id # b
                 /\ bids'[b].financial_score = bids[b].financial_score
                 /\ bids'[b].combined_score = bids[b].combined_score
                 /\ bids'[b].rank = bids[b].rank]_vars

\* A step is a comparative statement that was returned
StatementStep == response'.op = "get_comparative_statement" /\ response'.code = "OK"

\* C25: the comparative statement of a tender has one row for every bid of the
\* tender whose status is neither DRAFT nor WITHDRAWN, each with the rank the
\* bid has in the table, and the request changes nothing that is stored.
\* Checked under SpecAward.
C25_StatementListsAllBids ==
    [][StatementStep =>
          LET st == Val(response'.result)
          IN  /\ {st.bids[k].bid_id : k \in DOMAIN st.bids}
                    = {b \in BidsOfTender(st.tender_id) :
                          bids[b].status \notin {"Draft", "Withdrawn"}}
              /\ \A k \in DOMAIN st.bids : st.bids[k].rank = bids[st.bids[k].bid_id].rank
              /\ db' = db]_vars

\* C26: whatever declare_winner and issue_loi requests there have been, no
\* tender has more than one bid with status AWARDED.  Checked under Spec.
C26_AtMostOneAwardedBid ==
    \A t \in TenderIds :
       Cardinality({b \in BidsOfTender(t) : bids[b].status = "Awarded"}) <= 1

\* The bids of the tender whose persisted rank is 1
RankOneBids(table, tender_id) ==
    {b \in DOMAIN table : table[b].tender_id = tender_id /\ table[b].rank = Some(1)}

\* C27: whatever ranking runs there have been, no tender has more than one bid
\* with persisted rank 1.  Checked under SpecAmounts (ranking runs of every
\* method on unchanged score entries).
C27_AtMostOneRankOne ==
    \A t \in TenderIds : Cardinality(RankOneBids(bids, t)) <= 1

\* C28: a declare_winner request that is accepted awards the bid of the tender
\* whose persisted rank is 1: the bid it sets AWARDED has rank 1.  Checked under
\* SpecAward.
C28_AwardedBidHasRankOne ==
    [][\A t \in TenderArgs, b \in 1..(NumRankedBids + 1) :
          (response'.op = "declare_winner" /\ response'.code = "OK" /\ DeclareWinner(t, b))
             => /\ bids'[b].status = "Awarded"
                /\ bids'[b].rank = Some(1)]_vars

\* C29: a bid that declare_winner has set AWARDED or REJECTED (no letter of
\* intent has been issued, so no other request has awarded a bid) keeps its
\* status through every submit_bid and withdraw_bid request.  Checked under
\* Spec.
C29_BidderCannotUndoAward ==
    [][(response'.op \in {"submit_bid", "withdraw_bid"} /\ contracts = <<>>) =>
          \A b \in BidIds :
             bids[b].status \in {"Awarded", "Rejected"} => bids'[b].status = bids[b].status]_vars

\* C30: an issue_loi request whose bid is not a bid of the tender it names is
\* refused: it creates no contract and changes no bid or tender status.
\* Checked under Spec.
C30_LoiNeedsBidOfTender ==
    [][\A t \in TenderArgs, b \in BidArgs :
          (response'.op = "issue_loi" /\ ~BelongsTo(b, t) /\ IssueLoi(t, b))
             => /\ response'.code # "OK"
                /\ db' = db]_vars
====
